---- MODULE Spec2Model ----
(***************************************************************************)
(* Value marshalling layer of PythonMonkey: the arbitrary-precision        *)
(* integer codec (IntType), the two pyTypeFactory dispatchers, the safe    *)
(* dispatcher, the dict wrapper exercised by the DictType tests and the    *)
(* script evaluator (PyEvaluator).                                         *)
(*                                                                         *)
(* Runtime A is CPython (reference counted), Runtime B is SpiderMonkey.    *)
(* Machine words wider than 31 bits are kept as byte sequences, least      *)
(* significant byte first; CPython digits (30 bits) are integers.          *)
(***************************************************************************)
EXTENDS Integers, Sequences, FiniteSets, TLC

VARIABLES bigEndian, smallIntsShared, proc, pyHeap, jsHeap, pyErr, jsErr, call, pyFrom, jsFrom, zeroRets,
          wrapped, evaluators

vars == <<bigEndian, smallIntsShared, proc, pyHeap, jsHeap, pyErr, jsErr, call, pyFrom, jsFrom, zeroRets,
          wrapped, evaluators>>

(***************************************************************************)
(* Program constants                                                       *)
(***************************************************************************)
SIGN_BIT_MASK == 8
CELL_HEADER_LENGTH == 8
JS_DIGIT_BIT == 64
PY_DIGIT_BIT == 30
JS_DIGIT_BYTE == 8
JS_INLINE_DIGIT_MAX_LEN == 1
NULL == 0

HEX_CHAR_LOOKUP_TABLE ==
  <<"0", "1", "2", "3", "4", "5", "6", "7", "8", "9", "A", "B", "C", "D", "E", "F">>

(***************************************************************************)
(* Bounds of the model                                                     *)
(***************************************************************************)
MaxPyDigits == 9
MaxConversions == 3
MaxFaultyCalls == 1
MaxDispatchAllocs == 1
MaxWrappers == 2
MaxDictAllocs == 1
MaxEvaluators == 1
MaxScriptAllocs == 1

Abs(x) == IF x < 0 THEN -x ELSE x

(***************************************************************************)
(* Runtime A objects.  ob_size is the signed digit count of an int, its    *)
(* sign is the sign of the number; ob_digit holds |ob_size| digits, least  *)
(* significant first.  items is the table of a dict (key -> address) and   *)
(* text the characters of a str.                                           *)
(***************************************************************************)
PyObject(type, size, digits) ==
  [ob_type |-> type, ob_size |-> size, ob_digit |-> digits, items |-> <<>>, text |-> "",
   small |-> <<>>]

\* CPython keeps one shared object for every int from -NSMALLNEGINTS to
\* NSMALLPOSINTS - 1; small is <<v>> for the shared object of v and <<>>
\* for every other object
NSMALLPOSINTS == 257
NSMALLNEGINTS == 5

IS_SMALL_INT(ival) == -NSMALLNEGINTS <= ival /\ ival < NSMALLPOSINTS

\* the shared object of v as the interpreter creates it
CachedInt(v) ==
  [PyObject("int", IF v = 0 THEN 0 ELSE IF v < 0 THEN -1 ELSE 1,
            IF v = 0 THEN <<>> ELSE <<IF v < 0 THEN -v ELSE v>>) EXCEPT !.small = <<v>>]

\* The address of CPython's cached small int 0 (what PyLong_FromLong(0) returns).
SmallZero == 1

\* get_small_int: the shared object of ival, whatever was written into it
\* since; it enters the heap of the model when it is first handed out
get_small_int(heap, ival) ==
  IF \E a \in DOMAIN heap : heap[a].small = <<ival>>
  THEN [heap |-> heap, ptr |-> CHOOSE a \in DOMAIN heap : heap[a].small = <<ival>>]
  ELSE [heap |-> Append(heap, CachedInt(ival)), ptr |-> Len(heap) + 1]

\* PyLong_FromLong(ival) for an ival of 32 bits
PyLong_FromLong(heap, ival) ==
  IF IS_SMALL_INT(ival) THEN get_small_int(heap, ival)
  ELSE LET abs_ival == IF ival < 0 THEN -ival ELSE ival
           digits == IF abs_ival < 2 ^ 30 THEN <<abs_ival>>
                     ELSE <<abs_ival % (2 ^ 30), abs_ival \div (2 ^ 30)>>
       IN [heap |-> Append(heap, PyObject("int", IF ival < 0 THEN -Len(digits) ELSE Len(digits),
                                          digits)),
           ptr |-> Len(heap) + 1]

\* bit b (from 0) of the magnitude of an int, read as CPython reads it:
\* the digits counted by the absolute value of ob_size
PyBit(v, b) ==
  LET i == (b \div PY_DIGIT_BIT) + 1
  IN IF i > Abs(v.ob_size) THEN 0
     ELSE (v.ob_digit[i] \div (2 ^ (b % PY_DIGIT_BIT))) % 2

\* byte k (from 0, least significant first) of the magnitude
ByteOfLong(v, k) ==
  LET b == 8 * k
  IN PyBit(v, b) + 2 * PyBit(v, b + 1) + 4 * PyBit(v, b + 2) + 8 * PyBit(v, b + 3)
     + 16 * PyBit(v, b + 4) + 32 * PyBit(v, b + 5) + 64 * PyBit(v, b + 6)
     + 128 * PyBit(v, b + 7)

RECURSIVE bits_in_digit(_)
bits_in_digit(d) == IF d = 0 THEN 0 ELSE 1 + bits_in_digit(d \div 2)

\* _PyLong_NumBits: the bit length of the magnitude
PyLong_NumBits(v) ==
  LET ndigits == Abs(v.ob_size)
  IN IF ndigits = 0 THEN 0
     ELSE (ndigits - 1) * PY_DIGIT_BIT + bits_in_digit(v.ob_digit[ndigits])

\* PyLong_AsUnsignedLongLong: the value as 8 bytes; a negative int or one of
\* more than 64 bits is an error, reported as (unsigned long long)-1
PyLong_AsUnsignedLongLong(v) ==
  IF v.ob_size < 0 \/ PyLong_NumBits(v) > 64
  THEN [err |-> TRUE, value |-> [i \in 1..8 |-> 255]]
  ELSE [err |-> FALSE, value |-> [i \in 1..8 |-> ByteOfLong(v, i - 1)]]

\* a byte of memory that was never given a value
Junk == 165

\* _PyLong_AsByteArray(v, bytes, n, little_endian, is_signed = false): n bytes of
\* the magnitude.  A negative int is refused before a byte is written (the
\* buffer keeps its content); a magnitude of more than 8n bits overflows.
PyLong_AsByteArray(v, n, little_endian) ==
  IF v.ob_size < 0 THEN [rc |-> -1, bytes |-> [i \in 1..n |-> Junk]]
  ELSE LET le == [i \in 1..n |-> ByteOfLong(v, i - 1)]
       IN [rc |-> IF PyLong_NumBits(v) > 8 * n THEN -1 ELSE 0,
           bytes |-> IF little_endian THEN le ELSE [i \in 1..n |-> le[n + 1 - i]]]

\* the number of entries of s up to its last non-zero one
RECURSIVE Significant(_, _)
Significant(s, n) ==
  IF n = 0 THEN 0 ELSE IF s[n] # 0 THEN n ELSE Significant(s, n - 1)

\* _PyLong_New(size): a fresh int object of the given digit count
PyLong_New(heap, size) ==
  [heap |-> Append(heap, PyObject("int", size, [i \in 1..size |-> 0])),
   ptr |-> Len(heap) + 1]

\* the loop of _PyLong_FromByteArray: every byte is or-ed into the
\* accumulator above the accumbits bits it holds, and a digit is stored when
\* PY_DIGIT_BIT bits are there.  The accumulator (up to 37 bits) is kept as
\* the part that completes the digit and the part that stays.
RECURSIVE AccumulateDigits(_, _, _, _, _)
AccumulateDigits(le, i, numsignificantbytes, accum, accumbits) ==
  IF i > numsignificantbytes
  THEN IF accumbits > 0 THEN <<accum>> ELSE <<>>
  ELSE IF accumbits + 8 >= PY_DIGIT_BIT
  THEN <<accum + (le[i] % (2 ^ (PY_DIGIT_BIT - accumbits))) * (2 ^ accumbits)>>
       \o AccumulateDigits(le, i + 1, numsignificantbytes,
                           le[i] \div (2 ^ (PY_DIGIT_BIT - accumbits)),
                           accumbits + 8 - PY_DIGIT_BIT)
  ELSE AccumulateDigits(le, i + 1, numsignificantbytes, accum + le[i] * (2 ^ accumbits),
                        accumbits + 8)

\* long_normalize and maybe_small_long on the digits the loop stored
LongFromDigits(heap, digits, shared) ==
  LET size == Significant(digits, Len(digits))
      ival == IF size = 0 THEN 0 ELSE digits[1]
  IN IF shared /\ size <= 1 /\ IS_SMALL_INT(ival)
     THEN get_small_int(heap, ival)
     ELSE [heap |-> Append(heap, PyObject("int", size, [i \in 1..size |-> digits[i]])),
           ptr |-> Len(heap) + 1]

\* _PyLong_FromByteArray(bytes, n, little_endian, is_signed = false): for
\* n = 0 the cached small int 0, otherwise a normalised int.  CPython up to
\* 3.10 returns the int it allocated; CPython 3.11 passes it through
\* maybe_small_long and returns the shared object of a value below
\* NSMALLPOSINTS (shared = TRUE).
PyLong_FromByteArray(heap, bytes, n, little_endian, shared) ==
  IF n = 0 THEN [heap |-> heap, ptr |-> SmallZero]
  ELSE LET le == IF little_endian THEN [i \in 1..n |-> bytes[i]]
                 ELSE [i \in 1..n |-> bytes[n + 1 - i]]
       IN LongFromDigits(heap, AccumulateDigits(le, 1, Significant(le, n), 0, 0), shared)

(***************************************************************************)
(* Runtime B integers, as laid out in memory: the header word with the     *)
(* flags, the digit count, and after the header either the inline digit or *)
(* a pointer to heap digits (hasHeap).  digits are the bytes of the digit  *)
(* storage in memory order.                                                *)
(***************************************************************************)
\* the bytes of one digit as the host stores them
NativeDigits(le, n, isBig) ==
  [i \in 1..(n * JS_DIGIT_BYTE) |->
     IF isBig
     THEN le[((i - 1) \div JS_DIGIT_BYTE) * JS_DIGIT_BYTE
             + (JS_DIGIT_BYTE - ((i - 1) % JS_DIGIT_BYTE))]
     ELSE le[i]]

\* a BigInt as the engine creates it from a little-endian magnitude
NewBigInt(le, isBig) ==
  LET sb == Significant(le, Len(le))
      n == (sb + JS_DIGIT_BYTE - 1) \div JS_DIGIT_BYTE
      padded == [i \in 1..(n * JS_DIGIT_BYTE) |-> IF i <= Len(le) THEN le[i] ELSE 0]
  IN [flagsField |-> 0, digitLength |-> n, hasHeap |-> n > JS_INLINE_DIGIT_MAX_LEN,
      digits |-> NativeDigits(padded, n, isBig)]

\* JS::detail::BigIntFromUint64
BigIntFromUint64(heap, u, isBig) ==
  [heap |-> Append(heap, NewBigInt(u, isBig)), ptr |-> Len(heap) + 1]

HexValue(c) == CHOOSE k \in 0..15 : HEX_CHAR_LOOKUP_TABLE[k + 1] = c

\* JS::SimpleStringToBigInt(cx, chars, 16)
SimpleStringToBigInt(heap, chars, isBig) ==
  LET n == Len(chars)
      nbytes == (n + 1) \div 2
      le == [k \in 1..nbytes |->
               HexValue(chars[n - 2 * (k - 1)])
               + (IF n - 2 * (k - 1) - 1 >= 1
                  THEN 16 * HexValue(chars[n - 2 * (k - 1) - 1]) ELSE 0)]
  IN [heap |-> Append(heap, NewBigInt(le, isBig)), ptr |-> Len(heap) + 1]

BigIntIsNegative(bigint) == (bigint.flagsField \div SIGN_BIT_MASK) % 2 = 1


(***************************************************************************)
(* IntType::toJsBigInt (Runtime A -> Runtime B)                            *)
(***************************************************************************)
\* what one call did: how it ended, the pointer returned, both heaps, the
\* error indicators it set, the stores to ob_size it made, and whether it
\* wrote through a null BigInt pointer
CallResult(outcome, result, pheap, jheap, setsPyErr, setsJsErr, sizeWrites, nullWrite) ==
  [outcome |-> outcome, result |-> result, pyHeap |-> pheap, jsHeap |-> jheap,
   setsPyErr |-> setsPyErr, setsJsErr |-> setsJsErr, sizeWrites |-> sizeWrites,
   nullWrite |-> nullWrite]

\* the primitives of toJsBigInt that can fail
Faults == {"none", "NumBits", "BigIntFromUint64", "PyMem_Malloc", "vector",
           "SimpleStringToBigInt"}

\* what a store through a null pointer can do: the process dies of the
\* signal, or (address 0 mapped) execution goes on
UBOutcomes == {"crashed", "continued"}

DigitCountFor(bitCount) ==
  IF bitCount = 0 THEN 1 ELSE ((bitCount - 1) \div JS_DIGIT_BIT) + 1

\* lines 95-97: force the stored length positive
ForcePositive(pheap, self) ==
  IF pheap[self].ob_size < 0
  THEN [pheap EXCEPT ![self].ob_size = -pheap[self].ob_size]
  ELSE pheap

\* lines 116-120: two hex characters per byte, high nibble first
HexEncode(bytes, charCount) ==
  [i \in 1..charCount |->
     IF i % 2 = 1
     THEN HEX_CHAR_LOOKUP_TABLE[((bytes[(i + 1) \div 2] \div 16) % 16) + 1]
     ELSE HEX_CHAR_LOOKUP_TABLE[(bytes[i \div 2] % 16) + 1]]

BitOr(flags, mask) == IF (flags \div mask) % 2 = 1 THEN flags ELSE flags + mask

\* the tail of the function without the store of line 131
FinishNoRestore(pheap, self, pyDigitCount, made, setsPyErr, setsJsErr, ub) ==
  IF pyDigitCount < 0
  THEN IF made.ptr = NULL
       THEN CallResult(IF ub = "crashed" THEN "crashed" ELSE "returned", NULL,
                       pheap, made.heap, setsPyErr, setsJsErr, 1, TRUE)
       ELSE CallResult("returned", made.ptr, pheap,
                       [made.heap EXCEPT ![made.ptr].flagsField = BitOr(@, SIGN_BIT_MASK)],
                       setsPyErr, setsJsErr, 1, FALSE)
  ELSE CallResult("returned", made.ptr, pheap, made.heap, setsPyErr, setsJsErr, 0, FALSE)

\* lines 128-138: restore the stored length, set the sign bit, return
Finish(pheap, self, pyDigitCount, made, setsPyErr, setsJsErr, ub) ==
  IF pyDigitCount < 0
  THEN LET restored == [pheap EXCEPT ![self].ob_size = pyDigitCount]
       IN IF made.ptr = NULL
          THEN CallResult(IF ub = "crashed" THEN "crashed" ELSE "returned", NULL,
                          restored, made.heap, setsPyErr, setsJsErr, 2, TRUE)
          ELSE CallResult("returned", made.ptr, restored,
                          [made.heap EXCEPT ![made.ptr].flagsField = BitOr(@, SIGN_BIT_MASK)],
                          setsPyErr, setsJsErr, 2, FALSE)
  ELSE CallResult("returned", made.ptr, pheap, made.heap, setsPyErr, setsJsErr, 0, FALSE)

\* lines 100-102: the value fits one digit
FastPath(pheap, self, jheap, isBig, fault) ==
  LET u == PyLong_AsUnsignedLongLong(pheap[self])
  IN [made |-> IF fault = "BigIntFromUint64" THEN [heap |-> jheap, ptr |-> NULL]
               ELSE BigIntFromUint64(jheap, u.value, isBig),
      setsPyErr |-> u.err, setsJsErr |-> fault = "BigIntFromUint64"]

\* lines 104-125: big-endian bytes, hex string, base-16 parse
SlowPath(pheap, self, jheap, isBig, jsDigitCount, fault) ==
  LET byteCount == JS_DIGIT_BYTE * jsDigitCount
      exported == PyLong_AsByteArray(pheap[self], byteCount, FALSE)
      charCount == byteCount * 2
      chars == HexEncode(exported.bytes, charCount)
  IN [made |-> IF fault = "SimpleStringToBigInt" THEN [heap |-> jheap, ptr |-> NULL]
               ELSE SimpleStringToBigInt(jheap, chars, isBig),
      setsPyErr |-> exported.rc # 0, setsJsErr |-> fault = "SimpleStringToBigInt"]

\* the faults that the call on this object can meet
FaultApplies(v, fault) ==
  LET fast == DigitCountFor(PyLong_NumBits(v)) <= 1
  IN \/ fault \in {"none", "NumBits"}
     \/ fast /\ fault = "BigIntFromUint64"
     \/ ~fast /\ fault \in {"PyMem_Malloc", "vector", "SimpleStringToBigInt"}

toJsBigInt(pheap, self, jheap, isBig, fault, ub) ==
  LET pyObject == pheap[self]
      bitCount == PyLong_NumBits(pyObject)
      jsDigitCount == DigitCountFor(bitCount)
      pyDigitCount == pyObject.ob_size
      isNegative == pyDigitCount < 0
      forced == ForcePositive(pheap, self)
      forcedWrites == IF isNegative THEN 1 ELSE 0
  IN IF fault = "NumBits"
     THEN CallResult("returned", NULL, pheap, jheap, TRUE, FALSE, 0, FALSE)
     ELSE IF jsDigitCount <= 1
     THEN LET f == FastPath(forced, self, jheap, isBig, fault)
          IN Finish(forced, self, pyDigitCount, f.made, f.setsPyErr, f.setsJsErr, ub)
     ELSE IF fault = "PyMem_Malloc" /\ ub = "crashed"
     THEN \* _PyLong_AsByteArray stores through the null buffer
          CallResult("crashed", NULL, forced, jheap, FALSE, FALSE, forcedWrites, TRUE)
     ELSE IF fault = "vector"
     THEN \* std::bad_alloc leaves the function by unwinding
          CallResult("threw", NULL, forced, jheap, FALSE, FALSE, forcedWrites, FALSE)
     ELSE LET s == SlowPath(forced, self, jheap, isBig, jsDigitCount, fault)
              r == Finish(forced, self, pyDigitCount, s.made, s.setsPyErr, s.setsJsErr, ub)
          IN IF fault = "PyMem_Malloc" THEN [r EXCEPT !.nullWrite = TRUE] ELSE r

(***************************************************************************)
(* The IntType constructor taking a JS::BigInt (Runtime B -> Runtime A)    *)
(***************************************************************************)
\* lines 43-48, 60: the address the digit bytes are read from.  Reading the
\* inline cell of a BigInt that keeps a pointer there, or following the
\* inline digit as a pointer, reads memory that holds no digits.
DigitBytes(bigint, jsDigitCount) ==
  IF (jsDigitCount > JS_INLINE_DIGIT_MAX_LEN) = bigint.hasHeap
  THEN [i \in 1..(jsDigitCount * JS_DIGIT_BYTE) |-> bigint.digits[i]]
  ELSE [i \in 1..(jsDigitCount * JS_DIGIT_BYTE) |-> Junk]

\* the byte-buffer primitive for every digit count
ConstructAlways(pheap, bytes, jsDigitCount, shared) ==
  PyLong_FromByteArray(pheap, bytes, jsDigitCount * JS_DIGIT_BYTE, TRUE, shared)

\* lines 61-68: a fresh zero-length int for digit count 0, the byte-buffer
\* primitive otherwise
Construct(pheap, bytes, jsDigitCount, shared) ==
  IF jsDigitCount = 0 THEN PyLong_New(pheap, 0)
  ELSE PyLong_FromByteArray(pheap, bytes, jsDigitCount * JS_DIGIT_BYTE, TRUE, shared)

\* lines 71-79: the sign written into the int that was built, and the retag
SignAndTag(c, isNegative) ==
  [constructed |-> TRUE, pyObject |-> c.ptr,
   heap |-> [c.heap EXCEPT ![c.ptr].ob_size = IF isNegative THEN -@ ELSE @,
                           ![c.ptr].ob_type = "pythonmonkey.bigint"]]

\* the constructor: pyObject is the payload of the wrapper; on a big-endian
\* host the constructor returns before it assigns one (constructed = FALSE)
IntType(pheap, bigint, isBig, shared) ==
  IF isBig
  THEN [constructed |-> FALSE, pyObject |-> NULL, heap |-> pheap]
  ELSE SignAndTag(Construct(pheap, DigitBytes(bigint, bigint.digitLength),
                            bigint.digitLength, shared),
                  BigIntIsNegative(bigint))


(***************************************************************************)
(* The codec as a state machine: a little-endian host, the cached small    *)
(* int 0 and one source int on the Runtime A heap; every int on the heap   *)
(* can be sent to Runtime B and every BigInt sent back.                    *)
(***************************************************************************)
PyLong_Check(o) == o.ob_type \in {"int", "bool", "pythonmonkey.bigint"}

PyDigitMax == (2 ^ PY_DIGIT_BIT) - 1

\* top digit and the two digits the lower places alternate between
DigitPatterns ==
  {<<1, 0, 0>>, <<15, PyDigitMax, PyDigitMax>>, <<16, 0, 0>>,
   <<1023, PyDigitMax, PyDigitMax>>, <<PyDigitMax, 305419896, 1>>,
   <<305419896, 1, PyDigitMax>>}

\* the source ints: every digit count up to MaxPyDigits, both signs
SourceInts ==
  {PyObject("int", 0, <<>>)} \cup
  {PyObject("int", sign * n,
            [i \in 1..n |-> IF i = n THEN pat[1] ELSE IF i % 2 = 1 THEN pat[2] ELSE pat[3]]) :
     <<n, pat, sign>> \in (1..MaxPyDigits) \X DigitPatterns \X {1, -1}}

NoCall == [op |-> "none"]
Snap(o) == [ob_size |-> o.ob_size, ob_digit |-> o.ob_digit]

IsZeroInt(o) == o.ob_size = 0

InitHost(isBig, builds) ==
  /\ bigEndian = isBig
  /\ smallIntsShared \in builds
  /\ proc = "running"
  /\ pyErr = FALSE
  /\ jsErr = FALSE
  /\ call = NoCall
  /\ zeroRets = <<>>
  /\ wrapped = <<>>
  /\ evaluators = <<>>

Init ==
  /\ InitHost(FALSE, BOOLEAN)
  /\ \E src \in SourceInts : pyHeap = <<CachedInt(0), src>>
  /\ pyFrom = <<NULL, NULL>>
  /\ jsHeap = <<>>
  /\ jsFrom = <<>>

\* a caller runs self->toJsBigInt(cx)
Call_toJsBigInt(self, fault, ub) ==
  /\ proc = "running"
  /\ self \in DOMAIN pyHeap
  /\ PyLong_Check(pyHeap[self])
  /\ FaultApplies(pyHeap[self], fault)
  /\ \E r \in {toJsBigInt(pyHeap, self, jsHeap, bigEndian, fault, ub)} :
        /\ pyHeap' = r.pyHeap
        /\ jsHeap' = r.jsHeap
        /\ jsFrom' = IF Len(r.jsHeap) > Len(jsHeap)
                     THEN Append(jsFrom, Snap(pyHeap[self])) ELSE jsFrom
        /\ pyErr' = (pyErr \/ r.setsPyErr)
        /\ jsErr' = (jsErr \/ r.setsJsErr)
        /\ proc' = CASE r.outcome = "returned" -> "running"
                     [] r.outcome = "crashed" -> "crashed"
                     [] OTHER -> "unwinding"
        /\ call' = [op |-> "toJsBigInt", self |-> self, fault |-> fault,
                    entry |-> pyHeap[self], outcome |-> r.outcome, result |-> r.result,
                    sizeWrites |-> r.sizeWrites, nullWrite |-> r.nullWrite]
        /\ zeroRets' = IF IsZeroInt(pyHeap[self]) /\ r.outcome = "returned" /\ r.result # NULL
                       THEN Append(zeroRets, <<"B", r.result>>) ELSE zeroRets
  /\ UNCHANGED <<bigEndian, smallIntsShared, pyFrom, wrapped, evaluators>>

\* a caller runs new IntType(cx, bigint)
Call_IntType(b) ==
  /\ proc = "running"
  /\ b \in DOMAIN jsHeap
  /\ \E r \in {IntType(pyHeap, jsHeap[b], bigEndian, smallIntsShared)} :
        /\ pyHeap' = r.heap
        /\ pyFrom' = IF r.pyObject \in DOMAIN pyFrom
                     THEN [pyFrom EXCEPT ![r.pyObject] = b] ELSE Append(pyFrom, b)
        /\ call' = [op |-> "IntType", bigint |-> b, constructed |-> r.constructed,
                    pyObject |-> r.pyObject]
        /\ zeroRets' = IF jsHeap[b].digitLength = 0
                       THEN Append(zeroRets, <<"A", r.pyObject>>) ELSE zeroRets
  /\ UNCHANGED <<bigEndian, smallIntsShared, proc, jsHeap, jsFrom, pyErr, jsErr, wrapped, evaluators>>

\* the objects that conversions have added to the two heaps
Conversions == (Len(pyHeap) - 2) + Len(jsHeap)

Convert_A_to_B ==
  /\ Conversions < MaxConversions
  /\ \E self \in DOMAIN pyHeap : Call_toJsBigInt(self, "none", "crashed")

Convert_B_to_A ==
  /\ Conversions < MaxConversions
  /\ \E b \in DOMAIN jsHeap : Call_IntType(b)

Next == Convert_A_to_B \/ Convert_B_to_A

Spec == Init /\ [][Next]_vars

\* the sources of the calls in which a primitive may fail: 0, the shortest
\* ints and the longest
FaultSourceInts ==
  {src \in SourceInts : Abs(src.ob_size) <= 3 \/ Abs(src.ob_size) = MaxPyDigits}

InitFault ==
  /\ InitHost(FALSE, BOOLEAN)
  /\ \E src \in FaultSourceInts : pyHeap = <<CachedInt(0), src>>
  /\ pyFrom = <<NULL, NULL>>
  /\ jsHeap = <<>>
  /\ jsFrom = <<>>

\* conversions to Runtime B in which a primitive may fail
Convert_A_to_B_Faulty ==
  \E self \in DOMAIN pyHeap, fault \in Faults, ub \in UBOutcomes :
    /\ Len(jsHeap) < MaxFaultyCalls
    /\ ub = "continued" =>
         \/ fault = "PyMem_Malloc"
         \/ pyHeap[self].ob_size < 0 /\ fault \in {"BigIntFromUint64", "SimpleStringToBigInt"}
    /\ Call_toJsBigInt(self, fault, ub)

\* conversions back to Runtime A, whatever the error indicators hold
Convert_B_to_A_Faulty ==
  /\ Len(pyHeap) - 2 < MaxFaultyCalls
  /\ \E b \in DOMAIN jsHeap : Call_IntType(b)

NextFault == Convert_A_to_B_Faulty \/ Convert_B_to_A_Faulty

SpecFault == InitFault /\ [][NextFault]_vars


(***************************************************************************)
(* Runtime B values and the wrappers the dispatchers build                 *)
(***************************************************************************)
\* an object as the engine describes it: whether its class is a proxy class,
\* the family and the pyObject of its proxy handler, what JS::GetBuiltinClass
\* reports, whether it is a bound function, whether it is the native
\* callPyFunc (and reserved slot 0), whether BufferType supports it, and what
\* js::Unbox yields
JSObject(isProxy, family, handlerPyObject, cls, bound, native, slot0, buffer, prim, big) ==
  [isProxy |-> isProxy, family |-> family, handlerPyObject |-> handlerPyObject,
   cls |-> cls, bound |-> bound, native |-> native, slot0 |-> slot0,
   buffer |-> buffer, unboxedPrim |-> prim, unboxedBigInt |-> big]

NoObject == JSObject(FALSE, "none", NULL, "Other", FALSE, FALSE, NULL, FALSE, "", NULL)

\* a JS::Value: its tag, the primitive it holds (as text), the BigInt it
\* points to, the object it points to
JSValue(tag, prim, bigint, obj) ==
  [tag |-> tag, prim |-> prim, bigint |-> bigint, obj |-> obj]

\* a PyType: the wrapper class, the constructor overload that built it, its
\* pyObject member (set by the overloads that take or build a Runtime A
\* object here) and whether that member was assigned
Wrapper(kind, ctor, pyObject, constructed, arg) ==
  [kind |-> kind, ctor |-> ctor, pyObject |-> pyObject, constructed |-> constructed,
   arg |-> arg]

NullPtr == Wrapper("nullptr", "none", NULL, FALSE, "")

RegisteredFamilies ==
  {"PyDictProxyHandler", "PyListProxyHandler", "PyObjectProxyHandler"}

ErrorPrefix == "pythonmonkey cannot yet convert Javascript value of: "

\* JS::ToString on the values that reach line 315: a symbol has no string
\* conversion (the engine reports a TypeError and returns null)
JS_ToString(rval) ==
  IF rval.tag = "symbol" THEN [ok |-> FALSE, str |-> ""]
  ELSE IF rval.tag = "magic" THEN [ok |-> TRUE, str |-> "undefined"]
  ELSE [ok |-> TRUE, str |-> rval.prim]

DispatchResult(outcome, result, pheap, setsPyErr, setsJsErr, msg, trace) ==
  [outcome |-> outcome, result |-> result, heap |-> pheap, setsPyErr |-> setsPyErr,
   setsJsErr |-> setsJsErr, msg |-> msg, trace |-> trace]

Returned(result, pheap, trace) ==
  DispatchResult("returned", result, pheap, FALSE, FALSE, <<>>, trace)

\* new IntType(cx, bigint): the member of a wrapper the constructor left
\* unassigned holds whatever the allocation held (uninit)
NewIntType(pheap, bigint, isBig, shared, uninit, trace) ==
  LET r == IntType(pheap, bigint, isBig, shared)
  IN Returned(Wrapper("IntType", "BigInt", IF r.constructed THEN r.pyObject ELSE uninit,
                      r.constructed, ""),
              r.heap, trace)

(***************************************************************************)
(* pyTypeFactory on a JS::HandleValue (Runtime B -> Runtime A)             *)
(***************************************************************************)
\* lines 235-245: one of our proxies is unwrapped to the object it stands for
ProxyUnwrap(pheap, obj, trace) ==
  LET t == Append(trace, "isProxyObject")
  IN IF obj.isProxy /\ obj.family = "PyDictProxyHandler"
     THEN [hit |-> TRUE,
           r |-> Returned(Wrapper("DictType", "PyObject", obj.handlerPyObject, TRUE, ""), pheap, t)]
     ELSE IF obj.isProxy /\ obj.family = "PyListProxyHandler"
     THEN [hit |-> TRUE,
           r |-> Returned(Wrapper("ListType", "PyObject", obj.handlerPyObject, TRUE, ""), pheap, t)]
     ELSE IF obj.isProxy /\ obj.family = "PyObjectProxyHandler"
     THEN [hit |-> TRUE,
           r |-> Returned(Wrapper("PyType", "PyObject", obj.handlerPyObject, TRUE, ""), pheap, t)]
     ELSE [hit |-> FALSE, r |-> Returned(NullPtr, pheap, t)]

\* lines 246-308: classification by built-in class
ClassSwitch(pheap, jheap, obj, isBig, shared, uninit, trace) ==
  LET t == Append(trace, "GetBuiltinClass")
      cls == IF obj.bound THEN "Function" ELSE obj.cls
  IN CASE cls = "Boolean" -> Returned(Wrapper("BoolType", "JS", NULL, TRUE, obj.unboxedPrim), pheap, t)
       [] cls = "Date" -> Returned(Wrapper("DateType", "JS", NULL, TRUE, "obj"), pheap, t)
       [] cls = "Promise" -> Returned(Wrapper("PromiseType", "JS", NULL, TRUE, "obj"), pheap, t)
       [] cls = "Error" -> Returned(Wrapper("ExceptionType", "JS", NULL, TRUE, "obj"), pheap, t)
       [] cls = "Function" ->
            IF obj.native
            THEN Returned(Wrapper("FuncType", "PyObject", obj.slot0, TRUE, ""), pheap, t)
            ELSE Returned(Wrapper("FuncType", "JS", NULL, TRUE, "rval"), pheap, t)
       [] cls = "Number" -> Returned(Wrapper("FloatType", "JS", NULL, TRUE, obj.unboxedPrim), pheap, t)
       [] cls = "BigInt" -> NewIntType(pheap, jheap[obj.unboxedBigInt], isBig, shared, uninit, t)
       [] cls = "String" -> Returned(Wrapper("StrType", "JS", NULL, TRUE, obj.unboxedPrim), pheap, t)
       [] cls = "Array" -> Returned(Wrapper("ListType", "JS", NULL, TRUE, "obj"), pheap, t)
       [] OTHER ->
            IF obj.buffer
            THEN Returned(Wrapper("BufferType", "JS", NULL, TRUE, "obj"), pheap, t)
            ELSE Returned(Wrapper("DictType", "JS", NULL, TRUE, "rval"), pheap, t)

\* the object branch with the built-in classes tried before the proxy check
ObjectBranchClassFirst(pheap, jheap, obj, isBig, shared, uninit) ==
  LET c == ClassSwitch(pheap, jheap, obj, isBig, shared, uninit, <<"JS_ValueToObject">>)
      p == ProxyUnwrap(pheap, obj, c.trace)
  IN IF c.result.kind = "DictType" /\ p.hit THEN p.r ELSE c

\* lines 232-309
ObjectBranch(pheap, jheap, obj, isBig, shared, uninit) ==
  LET p == ProxyUnwrap(pheap, obj, <<"JS_ValueToObject">>)
  IN IF p.hit THEN p.r ELSE ClassSwitch(pheap, jheap, obj, isBig, shared, uninit, p.r.trace)

\* lines 314-318: the error of a value no branch returned for.  The string of
\* line 315 is null for a symbol and line 316 reads through it.
ClassificationError(pheap, rval, ub) ==
  LET s == JS_ToString(rval)
  IN IF s.ok
     THEN DispatchResult("returned", NullPtr, pheap, TRUE, FALSE, <<ErrorPrefix, s.str>>,
                         <<"ToString">>)
     ELSE IF ub = "crashed"
     THEN DispatchResult("crashed", NullPtr, pheap, FALSE, TRUE, <<>>, <<"ToString">>)
     ELSE DispatchResult("returned", NullPtr, pheap, TRUE, TRUE, <<ErrorPrefix, "?">>,
                         <<"ToString">>)

pyTypeFactory(pheap, jheap, rval, isBig, shared, ub, uninit) ==
  CASE rval.tag = "undefined" -> Returned(Wrapper("NoneType", "default", NULL, TRUE, ""), pheap, <<>>)
    [] rval.tag = "null" -> Returned(Wrapper("NullType", "default", NULL, TRUE, ""), pheap, <<>>)
    [] rval.tag = "boolean" -> Returned(Wrapper("BoolType", "JS", NULL, TRUE, rval.prim), pheap, <<>>)
    [] rval.tag = "number" -> Returned(Wrapper("FloatType", "JS", NULL, TRUE, rval.prim), pheap, <<>>)
    [] rval.tag = "string" -> Returned(Wrapper("StrType", "JS", NULL, TRUE, rval.prim), pheap, <<>>)
    [] rval.tag = "symbol" -> ClassificationError(pheap, rval, ub)
    [] rval.tag = "bigint" -> NewIntType(pheap, jheap[rval.bigint], isBig, shared, uninit, <<>>)
    [] rval.tag = "object" -> ObjectBranch(pheap, jheap, rval.obj, isBig, shared, uninit)
    [] OTHER -> ClassificationError(pheap, rval, ub)

\* lines 321-330
pyTypeFactorySafe(pheap, jheap, rval, isBig, shared, ub, uninit, errAtEntry) ==
  LET v == pyTypeFactory(pheap, jheap, rval, isBig, shared, ub, uninit)
  IN IF v.outcome # "returned" THEN [v |-> v, cleared |-> FALSE, plain |-> v]
     ELSE IF errAtEntry \/ v.setsPyErr
     THEN [v |-> [v EXCEPT !.result = Wrapper("NullType", "default", NULL, TRUE, "")],
           cleared |-> TRUE, plain |-> v]
     ELSE [v |-> v, cleared |-> FALSE, plain |-> v]

(***************************************************************************)
(* pyTypeFactory on a PyObject pointer (Runtime A -> Runtime B)            *)
(***************************************************************************)
PyUnicode_Check(o) == o.ob_type = "str"
PyFunction_Check(o) == o.ob_type = "function"
PyDict_Check(o) == o.ob_type \in {"dict", "collections.OrderedDict"}
PyList_Check(o) == o.ob_type = "list"
PyTuple_Check(o) == o.ob_type = "tuple"
\* PyCallable_Check: the type has a tp_call slot
PyCallable_Check(o) ==
  o.ob_type \in {"function", "builtin_function_or_method", "method", "type"}

\* the dispatcher with the test of line 190 widened to every callable
pyTypeFactory_PyObject_AnyCallable(pheap, object) ==
  LET o == pheap[object]
  IN IF PyLong_Check(o) THEN Wrapper("IntType", "PyObject", object, TRUE, "")
     ELSE IF PyUnicode_Check(o) THEN Wrapper("StrType", "PyObject", object, TRUE, "")
     ELSE IF PyCallable_Check(o) THEN Wrapper("FuncType", "PyObject", object, TRUE, "")
     ELSE IF PyDict_Check(o) THEN Wrapper("DictType", "PyObject", object, TRUE, "")
     ELSE IF PyList_Check(o) THEN Wrapper("ListType", "PyObject", object, TRUE, "")
     ELSE IF PyTuple_Check(o) THEN Wrapper("TupleType", "PyObject", object, TRUE, "")
     ELSE NullPtr

\* lines 181-207
pyTypeFactory_PyObject(pheap, object) ==
  LET o == pheap[object]
  IN IF PyLong_Check(o) THEN Wrapper("IntType", "PyObject", object, TRUE, "")
     ELSE IF PyUnicode_Check(o) THEN Wrapper("StrType", "PyObject", object, TRUE, "")
     ELSE IF PyFunction_Check(o) THEN Wrapper("FuncType", "PyObject", object, TRUE, "")
     ELSE IF PyDict_Check(o) THEN Wrapper("DictType", "PyObject", object, TRUE, "")
     ELSE IF PyList_Check(o) THEN Wrapper("ListType", "PyObject", object, TRUE, "")
     ELSE IF PyTuple_Check(o) THEN Wrapper("TupleType", "PyObject", object, TRUE, "")
     ELSE NullPtr

(***************************************************************************)
(* The dispatchers as a state machine: a Runtime A heap with one object of *)
(* every kind, three BigInts on the Runtime B heap, and callers that hand  *)
(* every kind of value to the three entry points.                          *)
(***************************************************************************)
Typed(type) == [PyObject(type, 0, <<>>) EXCEPT !.text = type]

DispatchPyHeap ==
  <<CachedInt(0), PyObject("int", -1, <<7>>), PyObject("bool", 1, <<1>>),
    Typed("str"), Typed("function"), Typed("builtin_function_or_method"), Typed("method"),
    Typed("type"), Typed("dict"), Typed("collections.OrderedDict"), Typed("list"),
    Typed("tuple"), Typed("float"), Typed("NoneType"), Typed("object")>>

AddrOf(type) == CHOOSE a \in DOMAIN DispatchPyHeap : DispatchPyHeap[a].ob_type = type

\* the ints whose BigInts the engine holds at the start
DispatchInts ==
  <<PyObject("int", 0, <<>>), PyObject("int", -1, <<5>>),
    PyObject("int", -3, <<PyDigitMax, PyDigitMax, 1023>>)>>

DispatchJsHeap(isBig) ==
  [i \in DOMAIN DispatchInts |->
     LET b == toJsBigInt(<<DispatchInts[i]>>, 1, <<>>, isBig, "none", "crashed")
     IN b.jsHeap[b.result]]

Primitive(tag, prim) == JSValue(tag, prim, NULL, NoObject)

ObjectValue(obj) == JSValue("object", "", NULL, obj)

PrimitiveValues ==
  {Primitive("undefined", ""), Primitive("null", ""), Primitive("boolean", "true"),
   Primitive("number", "1.5"), Primitive("string", "a"), Primitive("symbol", "s"),
   Primitive("magic", "")}

BigIntValues == {JSValue("bigint", "", b, NoObject) : b \in DOMAIN jsHeap}

\* proxies of ours: the handler family and the Runtime A object the handler
\* holds; GetBuiltinClass may report any class for a proxy
OurProxies ==
  {ObjectValue(JSObject(TRUE, t[1], AddrOf(t[2]), cls, FALSE, FALSE, NULL, FALSE, "", NULL)) :
     t \in {<<"PyDictProxyHandler", "dict">>,
            <<"PyListProxyHandler", "list">>,
            <<"PyObjectProxyHandler", "object">>},
     cls \in {"Object", "Array", "Function"}}

ForeignProxies ==
  {ObjectValue(JSObject(TRUE, "ScriptedProxyHandler", NULL, cls, FALSE, FALSE, NULL, FALSE,
                        "", NULL)) : cls \in {"Object", "Array"}}

PlainObject(cls, prim) ==
  ObjectValue(JSObject(FALSE, "none", NULL, cls, FALSE, FALSE, NULL, FALSE, prim, NULL))

PlainObjects ==
  {PlainObject("Boolean", "true"), PlainObject("Date", ""), PlainObject("Promise", ""),
   PlainObject("Error", ""), PlainObject("Function", ""), PlainObject("Number", "1.5"),
   PlainObject("String", "a"), PlainObject("Array", ""), PlainObject("Object", ""),
   PlainObject("Map", ""),
   ObjectValue(JSObject(FALSE, "none", NULL, "Function", FALSE, TRUE, AddrOf("function"),
                        FALSE, "", NULL)),
   ObjectValue(JSObject(FALSE, "none", NULL, "Other", TRUE, FALSE, NULL, FALSE, "", NULL)),
   ObjectValue(JSObject(FALSE, "none", NULL, "ArrayBuffer", FALSE, FALSE, NULL, TRUE, "", NULL)),
   ObjectValue(JSObject(FALSE, "none", NULL, "Other", FALSE, FALSE, NULL, TRUE, "", NULL))}
  \cup {ObjectValue(JSObject(FALSE, "none", NULL, "BigInt", FALSE, FALSE, NULL, FALSE, "", b)) :
          b \in DOMAIN jsHeap}

Values == PrimitiveValues \cup BigIntValues \cup OurProxies \cup ForeignProxies \cup PlainObjects

\* the BigInt a value holds, if it is one (bare or boxed)
BigIntOf(rval) ==
  IF rval.tag = "bigint" THEN rval.bigint
  ELSE IF rval.tag = "object" /\ rval.obj.cls = "BigInt" /\ ~rval.obj.bound
          /\ ~(rval.obj.isProxy /\ rval.obj.family \in RegisteredFamilies)
  THEN rval.obj.unboxedBigInt
  ELSE NULL

\* what an unassigned pointer member can hold
UninitPointers == {NULL, SmallZero, -1}

\* the choices that do not matter for a value are fixed
ChoiceMatters(rval, ub, uninit) ==
  /\ ub = "continued" => rval.tag = "symbol"
  /\ uninit # NULL => (bigEndian /\ BigIntOf(rval) # NULL)

InitDispatch(isBig) ==
  /\ InitHost(isBig, BOOLEAN)
  /\ pyHeap = DispatchPyHeap
  /\ pyFrom = [i \in DOMAIN DispatchPyHeap |-> NULL]
  /\ jsHeap = DispatchJsHeap(isBig)
  /\ jsFrom = [i \in DOMAIN DispatchInts |-> Snap(DispatchInts[i])]

\* the effect of a dispatcher call on the heap of Runtime A and its records
HeapEffect(r, rval) ==
  /\ Len(r.heap) <= Len(DispatchPyHeap) + MaxDispatchAllocs
  /\ pyHeap' = r.heap
  /\ pyFrom' = IF BigIntOf(rval) # NULL /\ r.result.constructed
                THEN IF r.result.pyObject \in DOMAIN pyFrom
                     THEN [pyFrom EXCEPT ![r.result.pyObject] = BigIntOf(rval)]
                     ELSE Append(pyFrom, BigIntOf(rval))
                ELSE pyFrom
  /\ zeroRets' = IF BigIntOf(rval) # NULL /\ r.result.constructed
                    /\ jsHeap[BigIntOf(rval)].digitLength = 0
                 THEN Append(zeroRets, <<"A", r.result.pyObject>>) ELSE zeroRets

\* a caller runs pyTypeFactory(cx, thisObj, rval)
Dispatch_B_to_A ==
  \E rval \in Values, ub \in UBOutcomes, uninit \in UninitPointers :
    /\ proc = "running"
    /\ ChoiceMatters(rval, ub, uninit)
    /\ \E r \in {pyTypeFactory(pyHeap, jsHeap, rval, bigEndian, smallIntsShared, ub, uninit)} :
          /\ HeapEffect(r, rval)
          /\ pyErr' = (pyErr \/ r.setsPyErr)
          /\ jsErr' = (jsErr \/ r.setsJsErr)
          /\ proc' = IF r.outcome = "returned" THEN "running" ELSE "crashed"
          /\ call' = [op |-> "pyTypeFactory", rval |-> rval, outcome |-> r.outcome,
                      result |-> r.result, msg |-> r.msg, trace |-> r.trace,
                      errAtEntry |-> pyErr, allocated |-> Len(r.heap) - Len(pyHeap)]
    /\ UNCHANGED <<bigEndian, smallIntsShared, jsHeap, jsFrom, wrapped, evaluators>>

\* a caller runs pyTypeFactorySafe(cx, thisObj, rval)
Dispatch_B_to_A_Safe ==
  \E rval \in Values, ub \in UBOutcomes, uninit \in UninitPointers :
    /\ proc = "running"
    /\ ChoiceMatters(rval, ub, uninit)
    /\ \E s \in {pyTypeFactorySafe(pyHeap, jsHeap, rval, bigEndian, smallIntsShared, ub,
                                    uninit, pyErr)} :
          /\ HeapEffect(s.plain, rval)
          /\ pyErr' = IF s.cleared THEN FALSE ELSE (pyErr \/ s.v.setsPyErr)
          /\ jsErr' = (jsErr \/ s.v.setsJsErr)
          /\ proc' = IF s.v.outcome = "returned" THEN "running" ELSE "crashed"
          /\ call' = [op |-> "pyTypeFactorySafe", rval |-> rval, outcome |-> s.v.outcome,
                      result |-> s.v.result, plain |-> s.plain.result,
                      plainFailed |-> (s.plain.outcome = "returned"
                                       /\ s.plain.result = NullPtr),
                      errAtEntry |-> pyErr]
    /\ UNCHANGED <<bigEndian, smallIntsShared, jsHeap, jsFrom, wrapped, evaluators>>

\* a caller runs pyTypeFactory(object)
Dispatch_A_to_B ==
  \E object \in DOMAIN pyHeap :
    /\ proc = "running"
    /\ call' = [op |-> "pyTypeFactory_PyObject", object |-> object, outcome |-> "returned",
                result |-> pyTypeFactory_PyObject(pyHeap, object), errAtEntry |-> pyErr]
    /\ UNCHANGED <<bigEndian, smallIntsShared, proc, pyHeap, jsHeap, pyErr, jsErr, pyFrom, jsFrom, zeroRets,
                   wrapped, evaluators>>

NextDispatch == Dispatch_B_to_A \/ Dispatch_B_to_A_Safe \/ Dispatch_A_to_B

\* a little-endian host
SpecDispatch == InitDispatch(FALSE) /\ [][NextDispatch]_vars

\* a big-endian host
SpecBigEndian == InitDispatch(TRUE) /\ [][NextDispatch]_vars

(***************************************************************************)
(* DictType, the wrapper of a Runtime A dict, as the DictType tests use    *)
(* it: the constructor keeps the pointer it is given, set stores through   *)
(* PyDict_SetItem, get looks up with PyDict_GetItem and hands what it      *)
(* finds to pyTypeFactory.                                                 *)
(***************************************************************************)
DictKeys == {"a", "b", "c"}

Str(text) == [PyObject("str", 0, <<>>) EXCEPT !.text = text]

\* the addresses of default_key and default_value in DictPyHeap
default_key == 3
default_value == 6

\* SetUp: dict_type = {"a": 10}; the keys the tests build, and objects of
\* Runtime A that a dict can hold: ints, a str, a float and None
DictPyHeap ==
  <<CachedInt(0),
    [PyObject("dict", 0, <<>>) EXCEPT !.items = [k \in DictKeys |-> IF k = "a" THEN default_value ELSE NULL]],
    Str("a"), Str("b"), Str("c"), CachedInt(10), Str("v"), Typed("float"), Typed("NoneType")>>

dict_type == CHOOSE a \in DOMAIN DictPyHeap : DictPyHeap[a].ob_type = "dict"

KeyObjects == {a \in DOMAIN DictPyHeap : DictPyHeap[a].text \in DictKeys}

\* the objects stored as values: a dict takes an object of any type, here
\* every object of the heap but the keys and the dict itself
ValueObjects == DOMAIN pyHeap \ (KeyObjects \cup {dict_type})

\* the arguments given to IntType(long): the high and the low 32 bits of n
LongInputs == {[hi |-> 0, lo |-> 15], [hi |-> 0, lo |-> 10], [hi |-> 1, lo |-> 5],
               [hi |-> 0, lo |-> 70000]}

\* IntType::IntType(long n) : PyType(Py_BuildValue("i", n)): the format "i"
\* takes an int, the low 32 bits of n
IntType_long(pheap, n) ==
  LET built == PyLong_FromLong(pheap, n.lo)
  IN [wrapper |-> Wrapper("IntType", "long", built.ptr, TRUE, ""), heap |-> built.heap]

PyDict_GetItem(pheap, d, key) == pheap[d].items[pheap[key].text]

PyDict_SetItem(pheap, d, key, value) ==
  [pheap EXCEPT ![d].items = [@ EXCEPT ![pheap[key].text] = value]]

\* the entry of a key the dict holds is removed
PyDict_DelItem(pheap, d, key) ==
  [pheap EXCEPT ![d].items = [@ EXCEPT ![pheap[key].text] = NULL]]

\* DictType::DictType(PyObject *object) : PyType(object)
DictType(object) == Wrapper("DictType", "PyObject", object, TRUE, "")

\* DictType::set(PyType *key, PyType *value)
DictType_set(pheap, this, key, value) ==
  PyDict_SetItem(pheap, this.pyObject, key.pyObject, value.pyObject)

\* DictType::get(PyType *key)
DictType_get(pheap, this, key) ==
  IF PyDict_GetItem(pheap, this.pyObject, key.pyObject) = NULL THEN NullPtr
  ELSE pyTypeFactory_PyObject(pheap, PyDict_GetItem(pheap, this.pyObject, key.pyObject))

\* _PyLong_FromByteArray, the one place where the builds differ, is not
\* reached from DictType
InitDict ==
  /\ InitHost(FALSE, {FALSE})
  /\ pyHeap = DictPyHeap
  /\ pyFrom = [i \in DOMAIN DictPyHeap |-> NULL]
  /\ jsHeap = <<>>
  /\ jsFrom = <<>>

\* DictType dict = DictType(dict_type)
Wrap ==
  /\ Len(wrapped) < MaxWrappers
  /\ wrapped' = Append(wrapped, DictType(dict_type))
  /\ call' = [op |-> "DictType", wrapper |-> Len(wrapped) + 1]
  /\ UNCHANGED <<bigEndian, smallIntsShared, proc, pyHeap, jsHeap, pyErr, jsErr, pyFrom, jsFrom, zeroRets, evaluators>>

\* dict.set(key, value) with wrappers of a key and of a value; the value is
\* one that has a wrapper
Wrapper_set ==
  \E w \in DOMAIN wrapped, k \in KeyObjects, v \in ValueObjects :
    /\ pyTypeFactory_PyObject(pyHeap, v) # NullPtr
    /\ pyHeap' = DictType_set(pyHeap, wrapped[w], pyTypeFactory_PyObject(pyHeap, k),
                              pyTypeFactory_PyObject(pyHeap, v))
    /\ call' = [op |-> "DictType::set", wrapper |-> w, key |-> k, value |-> v]
    /\ UNCHANGED <<bigEndian, smallIntsShared, proc, jsHeap, pyErr, jsErr, pyFrom, jsFrom, zeroRets, wrapped,
                   evaluators>>

\* dict.set(key, new IntType(n))
Wrapper_set_long ==
  \E w \in DOMAIN wrapped, k \in KeyObjects, n \in LongInputs :
    \E value \in {IntType_long(pyHeap, n)} :
      /\ Len(value.heap) <= Len(DictPyHeap) + MaxDictAllocs
      /\ pyHeap' = DictType_set(value.heap, wrapped[w], pyTypeFactory_PyObject(pyHeap, k),
                                value.wrapper)
      /\ pyFrom' = [i \in DOMAIN value.heap |-> NULL]
      /\ call' = [op |-> "DictType::set", wrapper |-> w, key |-> k,
                  value |-> value.wrapper.pyObject]
      /\ UNCHANGED <<bigEndian, smallIntsShared, proc, jsHeap, pyErr, jsErr, jsFrom, zeroRets,
                     wrapped, evaluators>>

\* dict.get(key)
Wrapper_get ==
  \E w \in DOMAIN wrapped, k \in KeyObjects :
    /\ call' = [op |-> "DictType::get", wrapper |-> w, key |-> k,
                result |-> DictType_get(pyHeap, wrapped[w], pyTypeFactory_PyObject(pyHeap, k))]
    /\ UNCHANGED <<bigEndian, smallIntsShared, proc, pyHeap, jsHeap, pyErr, jsErr, pyFrom, jsFrom, zeroRets,
                   wrapped, evaluators>>

\* Runtime A code stores into the dict itself, as SetUp does:
\* PyDict_SetItem(dict_type, key, value), with any key and an object of any
\* type
Direct_SetItem ==
  \E k \in KeyObjects, v \in ValueObjects :
    /\ pyHeap' = PyDict_SetItem(pyHeap, dict_type, k, v)
    /\ call' = [op |-> "PyDict_SetItem", key |-> k, value |-> v]
    /\ UNCHANGED <<bigEndian, smallIntsShared, proc, jsHeap, pyErr, jsErr, pyFrom, jsFrom, zeroRets, wrapped,
                   evaluators>>

\* Runtime A code deletes a key the dict holds: del dict_type[key]
Direct_DelItem ==
  \E k \in KeyObjects :
    /\ PyDict_GetItem(pyHeap, dict_type, k) # NULL
    /\ pyHeap' = PyDict_DelItem(pyHeap, dict_type, k)
    /\ call' = [op |-> "PyDict_DelItem", key |-> k]
    /\ UNCHANGED <<bigEndian, smallIntsShared, proc, jsHeap, pyErr, jsErr, pyFrom, jsFrom, zeroRets, wrapped,
                   evaluators>>

NextDict ==
  Wrap \/ Wrapper_set \/ Wrapper_set_long \/ Wrapper_get \/ Direct_SetItem \/ Direct_DelItem

SpecDict == InitDict /\ [][NextDict]_vars

(***************************************************************************)
(* PyEvaluator: the constructor makes the module "Bifrost2" and wraps an   *)
(* empty dict as py_global and the dict of the module as py_local;         *)
(* eval(input) runs a script in __main__; eval(input, func_name, args)     *)
(* runs a script with py_global and py_local, looks func_name up in the    *)
(* module, calls it and wraps what it returns.  A script is named by its   *)
(* text.  A namespace is followed on the names in EvalNames: the names the *)
(* constructor and the scripts bind.                                       *)
(***************************************************************************)
EvalNames == {"__file__", "f", "g"}

Namespace == [PyObject("dict", 0, <<>>) EXCEPT !.items = [n \in EvalNames |-> NULL]]

\* the heap of the dispatchers with the empty str (one shared object) and
\* the dict of __main__
EvalPyHeap == DispatchPyHeap \o <<Str(""), Namespace>>

EmptyStr == Len(DispatchPyHeap) + 1

MainDict == Len(DispatchPyHeap) + 2

\* the scripts given to eval
SyntaxErrorScripts == {"("}

RaisingScripts == {"raise SystemExit", "f = 0; raise ValueError"}

DefScripts ==
  {"def f(): raise ValueError", "def f(): return None", "def f(): global g; g = (); return g"}

Scripts == SyntaxErrorScripts \cup RaisingScripts \cup {"pass", "f = 0"} \cup DefScripts

\* the names given to eval as func_name
FuncNames == {"f", "__file__"}

\* the body of the function a def script defines
FunctionBody(input) ==
  CASE input = "def f(): raise ValueError" -> "raise ValueError"
    [] input = "def f(): return None" -> "return None"
    [] input = "def f(): global g; g = (); return g" -> "global g; g = (); return g"

PyDict_GetItemString(pheap, d, name) == pheap[d].items[name]

PyDict_SetItemString(pheap, d, name, value) ==
  [pheap EXCEPT ![d].items = [@ EXCEPT ![name] = value]]

\* PyModule_New: a module object and its dict; the module keeps the pointer
\* to its dict in items[1]
PyModule_New(pheap) ==
  [heap |-> pheap \o <<[Typed("module") EXCEPT !.items = <<Len(pheap) + 2>>], Namespace>>,
   ptr |-> Len(pheap) + 1]

PyModule_GetDict(pheap, module) == pheap[module].items[1]

\* PyObject_GetAttrString on a module: the lookup in its dict; NULL with
\* AttributeError set for a name the dict does not hold
PyObject_GetAttrString(pheap, module, name) ==
  PyDict_GetItemString(pheap, PyModule_GetDict(pheap, module), name)

\* PyEvaluator::PyEvaluator(), lines 340-347
PyEvaluator(pheap) ==
  LET module == PyModule_New(pheap)
      md_dict == PyModule_GetDict(module.heap, module.ptr)
      named == PyDict_SetItemString(module.heap, md_dict, "__file__", EmptyStr)
  IN [heap |-> Append(named, Namespace),
      this |-> [py_module |-> module.ptr, py_global |-> DictType(Len(named) + 1),
                py_local |-> DictType(md_dict), alive |-> TRUE]]

\* what running a script gave: ok, or the exception it ended with, and the
\* heap it left
RunResult(ok, exc, heap) == [ok |-> ok, exc |-> exc, heap |-> heap]

\* PyRun_String(input, Py_file_input, globals, locals).  With an error
\* pending at entry the compiler fails before anything runs.  A name bound
\* at the top level goes to locals; a function keeps the pointer to globals
\* in items[1] and its body in text; what a script bound before it raised
\* stays bound.
PyRun_String(pheap, input, globals, locals, errAtEntry) ==
  IF errAtEntry THEN RunResult(FALSE, "pending", pheap)
  ELSE IF input \in SyntaxErrorScripts THEN RunResult(FALSE, "SyntaxError", pheap)
  ELSE IF input = "raise SystemExit" THEN RunResult(FALSE, "SystemExit", pheap)
  ELSE IF input = "f = 0; raise ValueError"
  THEN RunResult(FALSE, "ValueError", PyDict_SetItemString(pheap, locals, "f", SmallZero))
  ELSE IF input = "pass" THEN RunResult(TRUE, "", pheap)
  ELSE IF input = "f = 0"
  THEN RunResult(TRUE, "", PyDict_SetItemString(pheap, locals, "f", SmallZero))
  ELSE RunResult(TRUE, "",
                 PyDict_SetItemString(
                   Append(pheap, [Typed("function") EXCEPT !.text = FunctionBody(input),
                                                           !.items = <<globals>>]),
                   locals, "f", Len(pheap) + 1))

\* PyObject_CallObject(func, args) of a function a script defined, with the
\* empty tuple as args: NULL with an error set when the body raises; a
\* global statement of the body writes the globals of the function
PyObject_CallObject(pheap, func, args) ==
  LET body == pheap[func].text
      func_globals == pheap[func].items[1]
  IN IF body = "raise ValueError" THEN [ptr |-> NULL, heap |-> pheap]
     ELSE IF body = "return None" THEN [ptr |-> AddrOf("NoneType"), heap |-> pheap]
     ELSE [ptr |-> args, heap |-> PyDict_SetItemString(pheap, func_globals, "g", args)]

\* what a call of eval gave: how it ended, the heap and the error state it
\* left, the wrapper of line 384, whether a null pointer was read, and the
\* line it returned or stopped at
EvalResult(outcome, heap, err, pytype, nullRead, line) ==
  [outcome |-> outcome, heap |-> heap, pyErr |-> err, result |-> pytype, nullRead |-> nullRead,
   line |-> line]

\* PyEvaluator::eval(input), lines 351-355: PyRun_SimpleString.  With an
\* error pending __main__ is not found and nothing runs; a script that fails
\* has its error printed and cleared, and SystemExit ends the process.
PyEvaluator_eval_input(pheap, input, errAtEntry) ==
  IF errAtEntry THEN EvalResult("returned", pheap, TRUE, NullPtr, FALSE, 355)
  ELSE LET v == PyRun_String(pheap, input, MainDict, MainDict, FALSE)
       IN IF v.ok THEN EvalResult("returned", v.heap, FALSE, NullPtr, FALSE, 355)
          ELSE IF v.exc = "SystemExit" THEN EvalResult("exited", v.heap, TRUE, NullPtr, FALSE, 353)
          ELSE EvalResult("returned", v.heap, FALSE, NullPtr, FALSE, 355)

\* PyEvaluator::eval(input, func_name, args), lines 357-387.  ub is what
\* reading through a null pointer does: line 184 reads the type of a NULL
\* function_return, line 386 prints through a null pytype_function_return.
PyEvaluator_eval(pheap, this, input, func_name, args, errAtEntry, ub) ==
  LET py_create_func == PyRun_String(pheap, input, this.py_global.pyObject,
                                     this.py_local.pyObject, errAtEntry)
  IN IF ~py_create_func.ok
     THEN EvalResult("returned", py_create_func.heap, TRUE, NullPtr, FALSE, 366)
     ELSE LET py_func == PyObject_GetAttrString(py_create_func.heap, this.py_module, func_name)
          IN IF py_func = NULL
             THEN EvalResult("returned", py_create_func.heap, TRUE, NullPtr, FALSE, 379)
             ELSE IF ~PyCallable_Check(py_create_func.heap[py_func])
             THEN EvalResult("returned", py_create_func.heap, FALSE, NullPtr, FALSE, 379)
             ELSE LET function_return == PyObject_CallObject(py_create_func.heap, py_func, args)
                  IN IF function_return.ptr = NULL
                     THEN EvalResult(IF ub = "crashed" THEN "crashed" ELSE "returned",
                                     function_return.heap, TRUE, NullPtr, TRUE, 384)
                     ELSE IF pyTypeFactory_PyObject(function_return.heap, function_return.ptr) = NullPtr
                     THEN EvalResult(IF ub = "crashed" THEN "crashed" ELSE "returned",
                                     function_return.heap, FALSE, NullPtr, TRUE, 386)
                     ELSE EvalResult("returned", function_return.heap, FALSE,
                                     pyTypeFactory_PyObject(function_return.heap,
                                                            function_return.ptr),
                                     FALSE, 387)

\* the functions the scripts have made
ScriptObjects(pheap) == {a \in DOMAIN pheap : a > Len(EvalPyHeap) /\ pheap[a].ob_type = "function"}

ProcAfter(outcome) ==
  IF outcome = "crashed" THEN "crashed" ELSE IF outcome = "exited" THEN "exited" ELSE "running"

InitEval ==
  /\ InitHost(FALSE, {FALSE})
  /\ pyHeap = EvalPyHeap
  /\ pyFrom = [i \in DOMAIN EvalPyHeap |-> NULL]
  /\ jsHeap = <<>>
  /\ jsFrom = <<>>

\* new PyEvaluator()
Construct_Evaluator ==
  \E made \in {PyEvaluator(pyHeap)} :
    /\ proc = "running"
    /\ Len(evaluators) < MaxEvaluators
    /\ pyHeap' = made.heap
    /\ pyFrom' = [i \in DOMAIN made.heap |-> NULL]
    /\ evaluators' = Append(evaluators, made.this)
    /\ call' = [op |-> "PyEvaluator", evaluator |-> Len(evaluators) + 1]
    /\ UNCHANGED <<bigEndian, smallIntsShared, proc, jsHeap, pyErr, jsErr, jsFrom, zeroRets, wrapped>>

\* delete evaluator: the destructor of line 349 has an empty body, so the
\* module and the two DictType stay on the heap
Destroy_Evaluator ==
  \E e \in DOMAIN evaluators :
    /\ proc = "running"
    /\ evaluators[e].alive
    /\ evaluators' = [evaluators EXCEPT ![e].alive = FALSE]
    /\ call' = [op |-> "~PyEvaluator", evaluator |-> e]
    /\ UNCHANGED <<bigEndian, smallIntsShared, proc, pyHeap, jsHeap, pyErr, jsErr, pyFrom, jsFrom, zeroRets,
                   wrapped>>

\* evaluator.eval(input, func_name, args) with the empty tuple as args
Eval_Function ==
  \E e \in DOMAIN evaluators, input \in Scripts, func_name \in FuncNames, ub \in UBOutcomes :
    \E r \in {PyEvaluator_eval(pyHeap, evaluators[e], input, func_name, AddrOf("tuple"),
                                     pyErr, ub)} :
      /\ proc = "running"
      /\ evaluators[e].alive
      /\ Cardinality(ScriptObjects(r.heap)) <= MaxScriptAllocs
      /\ pyHeap' = r.heap
      /\ pyFrom' = [i \in DOMAIN r.heap |-> NULL]
      /\ pyErr' = r.pyErr
      /\ proc' = ProcAfter(r.outcome)
      /\ call' = [op |-> "PyEvaluator::eval(input, func_name, args)", evaluator |-> e,
                  input |-> input, func_name |-> func_name, outcome |-> r.outcome,
                  result |-> r.result, nullRead |-> r.nullRead, line |-> r.line,
                  errAtEntry |-> pyErr]
      /\ UNCHANGED <<bigEndian, smallIntsShared, jsHeap, jsErr, jsFrom, zeroRets, wrapped, evaluators>>

\* evaluator.eval(input)
Eval_Script ==
  \E e \in DOMAIN evaluators, input \in Scripts :
    \E r \in {PyEvaluator_eval_input(pyHeap, input, pyErr)} :
      /\ proc = "running"
      /\ evaluators[e].alive
      /\ Cardinality(ScriptObjects(r.heap)) <= MaxScriptAllocs
      /\ pyHeap' = r.heap
      /\ pyFrom' = [i \in DOMAIN r.heap |-> NULL]
      /\ pyErr' = r.pyErr
      /\ proc' = ProcAfter(r.outcome)
      /\ call' = [op |-> "PyEvaluator::eval(input)", evaluator |-> e, input |-> input,
                  outcome |-> r.outcome, result |-> r.result, nullRead |-> r.nullRead,
                  line |-> r.line, errAtEntry |-> pyErr]
      /\ UNCHANGED <<bigEndian, smallIntsShared, jsHeap, jsErr, jsFrom, zeroRets, wrapped, evaluators>>

NextEval ==
  Construct_Evaluator \/ Eval_Function \/ Eval_Script \/ Destroy_Evaluator \/ Dispatch_A_to_B

SpecEval == InitEval /\ [][NextEval]_vars

(***************************************************************************)
(* Properties of the codec                                                 *)
(***************************************************************************)
\* C1: the int that the IntType constructor returns for a BigInt made by
\* toJsBigInt has the digits (magnitude) and the signed length (sign) of the
\* int that was sent.
C1_RoundTrip ==
  (call.op = "IntType" /\ call.constructed) =>
    /\ pyHeap[call.pyObject].ob_size = jsFrom[call.bigint].ob_size
    /\ pyHeap[call.pyObject].ob_digit = jsFrom[call.bigint].ob_digit

\* C5: no conversion of 0 returns an object an earlier conversion of 0
\* returned or CPython's cached 0, and the sign write and the retag that
\* follow the construction leave the cached 0 as it was.
C5_ZeroNeverAliased ==
  /\ \A i, j \in DOMAIN zeroRets : i # j => zeroRets[i] # zeroRets[j]
  /\ \A i \in DOMAIN zeroRets : zeroRets[i] # <<"A", SmallZero>>
  /\ pyHeap[SmallZero] = CachedInt(0)

\* 0 was converted twice to Runtime A and once to Runtime B
C5_Witness ==
  \E i, j, k \in DOMAIN zeroRets :
    /\ i < j
    /\ zeroRets[i][1] = "A" /\ zeroRets[j][1] = "A"
    /\ zeroRets[k][1] = "B"
    /\ pyHeap[zeroRets[i][2]].ob_type = "pythonmonkey.bigint"

\* C7: whenever a primitive fails inside toJsBigInt the call returns null with
\* the error state of the failing runtime set, and nothing is written through
\* a BigInt pointer that is null.
C7_FailurePropagates ==
  (call.op = "toJsBigInt" /\ call.fault # "none") =>
    /\ call.outcome = "returned"
    /\ call.result = NULL
    /\ pyErr \/ jsErr
    /\ ~call.nullWrite

\* C10: when toJsBigInt returns, the source int is the object it was at entry,
\* and the stored length of a non-negative source was never written.
C10_SourceUnchanged ==
  (call.op = "toJsBigInt" /\ call.outcome = "returned") =>
    /\ pyHeap[call.self] = call.entry
    /\ call.entry.ob_size >= 0 => call.sizeWrites = 0

\* a negative source of several digits went through the hex path, its length
\* was forced positive and written back
C10_Witness ==
  /\ call.op = "toJsBigInt"
  /\ call.outcome = "returned"
  /\ call.result # NULL
  /\ call.entry.ob_size < 0
  /\ call.sizeWrites = 2
  /\ jsHeap[call.result].digitLength >= 2
  /\ pyHeap[call.self].ob_size < 0

(***************************************************************************)
(* Properties of the dispatchers                                           *)
(***************************************************************************)
OurProxy(rval) ==
  rval.tag = "object" /\ rval.obj.isProxy /\ rval.obj.family \in RegisteredFamilies

KindOfFamily(family) ==
  CASE family = "PyDictProxyHandler" -> "DictType"
    [] family = "PyListProxyHandler" -> "ListType"
    [] family = "PyObjectProxyHandler" -> "PyType"

\* C2: for a proxy of one of the three registered families, pyTypeFactory
\* returns the wrapper of that family holding the very pyObject of the proxy
\* handler; nothing is allocated and GetBuiltinClass has not been asked when
\* it returns.
C2_ProxyIdentity ==
  (call.op = "pyTypeFactory" /\ OurProxy(call.rval)) =>
    /\ call.outcome = "returned"
    /\ call.result.kind = KindOfFamily(call.rval.obj.family)
    /\ call.result.ctor = "PyObject"
    /\ call.result.pyObject = call.rval.obj.handlerPyObject
    /\ call.allocated = 0
    /\ \A i \in DOMAIN call.trace : call.trace[i] # "GetBuiltinClass"

\* a proxy of a list the engine classifies as an Array came back as the list
C2_Witness ==
  /\ call.op = "pyTypeFactory"
  /\ OurProxy(call.rval)
  /\ call.rval.obj.family = "PyListProxyHandler"
  /\ call.rval.obj.cls = "Array"
  /\ call.result.kind = "ListType"
  /\ pyHeap[call.result.pyObject].ob_type = "list"

\* C3: for a symbol or a magic value pyTypeFactory returns null with the
\* error of Runtime A set to the message made of the prefix and the engine's
\* string for the value.
C3_UnrecognizedFails ==
  (call.op = "pyTypeFactory" /\ call.rval.tag \in {"symbol", "magic"}) =>
    /\ call.outcome = "returned"
    /\ call.result = NullPtr
    /\ pyErr
    /\ Len(call.msg) = 2
    /\ call.msg[1] = ErrorPrefix
    /\ JS_ToString(call.rval).ok => call.msg[2] = JS_ToString(call.rval).str

\* C4: pyTypeFactorySafe returns a wrapper, never null, with the error of
\* Runtime A clear, and the NullType wrapper whenever pyTypeFactory returns
\* null for the value.
C4_SafeAlwaysWrapper ==
  call.op = "pyTypeFactorySafe" =>
    /\ call.outcome = "returned"
    /\ call.result # NullPtr
    /\ ~pyErr
    /\ call.plainFailed => call.result = Wrapper("NullType", "default", NULL, TRUE, "")

\* the kind the priority order of the text gives, with "callable" read as
\* every object that can be called
KindOfCallable(o) ==
  IF PyLong_Check(o) THEN "IntType"
  ELSE IF PyUnicode_Check(o) THEN "StrType"
  ELSE IF PyCallable_Check(o) THEN "FuncType"
  ELSE IF PyDict_Check(o) THEN "DictType"
  ELSE IF PyList_Check(o) THEN "ListType"
  ELSE IF PyTuple_Check(o) THEN "TupleType"
  ELSE "nullptr"

\* C6, as stated: every callable gets a FuncType, every object outside the
\* six kinds gets null, and the error of Runtime A is not set.
C6_CallableToFunction ==
  call.op = "pyTypeFactory_PyObject" =>
    /\ call.result.kind = KindOfCallable(pyHeap[call.object])
    /\ pyErr = call.errAtEntry

\* the wrapper of each type of object
KindOfType(type) ==
  CASE type \in {"int", "bool", "pythonmonkey.bigint"} -> "IntType"
    [] type = "str" -> "StrType"
    [] type = "function" -> "FuncType"
    [] type \in {"dict", "collections.OrderedDict"} -> "DictType"
    [] type = "list" -> "ListType"
    [] type = "tuple" -> "TupleType"
    [] OTHER -> "nullptr"

\* C6, amended: ints, strs, Python functions, dicts, lists and tuples get
\* their wrapper, holding the object itself; every other object, the
\* callables that are not Python functions among them (built-in functions,
\* bound methods, classes), gets null; the error of Runtime A is not touched.
C6_FunctionToFunction ==
  call.op = "pyTypeFactory_PyObject" =>
    /\ call.outcome = "returned"
    /\ call.result.kind = KindOfType(pyHeap[call.object].ob_type)
    /\ call.result # NullPtr =>
         (call.result.pyObject = call.object /\ call.result.ctor = "PyObject")
    /\ call.result.kind = "nullptr" => call.result = NullPtr
    /\ pyErr = call.errAtEntry

\* a built-in function was handed to the dispatcher and got null, no error
C6_Witness ==
  /\ call.op = "pyTypeFactory_PyObject"
  /\ pyHeap[call.object].ob_type = "builtin_function_or_method"
  /\ call.result = NullPtr
  /\ ~pyErr

\* C8: on a big-endian host pyTypeFactory on a BigInt (bare or boxed) decodes
\* and allocates nothing, reports a failure (null, an error set) and hands
\* back no IntType, least of all one whose pyObject was never assigned.
C8_BigEndianFailsLoudly ==
  (bigEndian /\ call.op = "pyTypeFactory" /\ BigIntOf(call.rval) # NULL) =>
    /\ call.allocated = 0
    /\ call.result.kind # "IntType"
    /\ call.result = NullPtr
    /\ pyErr \/ jsErr

(***************************************************************************)
(* Properties of DictType                                                  *)
(***************************************************************************)
\* C9: every DictType holds the dict itself; after set the dict maps the key
\* to the very object of the value wrapper; get returns null for a key the
\* dict does not hold and otherwise a wrapper of the very object the dict
\* holds at that moment, whoever stored it.  The last part fails: for a key
\* that holds an object without a wrapper (a float, None) get returns null.
C9_SharedStorage ==
  /\ \A w \in DOMAIN wrapped : wrapped[w].pyObject = dict_type
  /\ call.op = "DictType::set" =>
       PyDict_GetItem(pyHeap, dict_type, call.key) = call.value
  /\ call.op = "DictType::get" =>
       IF PyDict_GetItem(pyHeap, dict_type, call.key) = NULL
       THEN call.result = NullPtr
       ELSE /\ call.result # NullPtr
            /\ call.result.pyObject = PyDict_GetItem(pyHeap, dict_type, call.key)

====
